---- MODULE Spec2Model ----
(***************************************************************************)
(* Helm chart offline converter: the two entry points of the repository,   *)
(* src/main.py (argparse) and                                              *)
(* src/tools/helm_chart_converter/chart_converter.py (typer).              *)
(*                                                                         *)
(* A Python str is a sequence of one-character strings.  An external       *)
(* command is a step whose outcome (binary found or not, exit status,      *)
(* raw stdout and stderr) is chosen by the environment.                    *)
(***************************************************************************)
EXTENDS Integers, Sequences, FiniteSets, TLC

VARIABLES
    variant,            \* which entry point runs: "main" or "chart_converter"
    pc,                 \* position of the run
    registry,           \* the registry argument as given on the command line
    private_registry,   \* registry.rstrip('/')
    images_to_process,  \* set returned by get_images_from_chart
    queue,              \* sorted(list(images_to_process))
    idx,                \* index in queue of the image being processed
    log,                \* commands invoked and files created so far, in order
    last,               \* what the latest run_command call did
    fs,                 \* files and directories the run has created
    original_values,    \* yaml.safe_load of the `helm show values` output
    offline_values,     \* the tree generate_offline_values dumps
    summary,            \* the final deployment summary has been printed
    warned,             \* the `helm repo update` warning has been printed
    exit_code           \* exit status, meaningful when pc = "exited"

vars == <<variant, pc, registry, private_registry, images_to_process, queue,
          idx, log, last, fs, original_values, offline_values, summary,
          warned, exit_code>>

----------------------------------------------------------------------------
(* Bounds of the model *)

\* longest list IMAGE_REGEX.findall returns from one rendered manifest
MaxMatches == 2
\* nesting depth of the values documents drawn in the rewriter specification
MaxDepth == 3

----------------------------------------------------------------------------
(* Python str operations *)

\* code point of a character (the order Python compares str by)
Ord(c) ==
    CASE c = "-" -> 45
      [] c = "." -> 46
      [] c = "/" -> 47
      [] c = "1" -> 49
      [] c = ":" -> 58
      [] c = "a" -> 97
      [] c = "b" -> 98
      [] c = "g" -> 103
      [] c = "h" -> 104
      [] c = "r" -> 114
      [] OTHER -> 0

\* s < t for Python str: code-point lexicographic, a proper prefix is smaller
RECURSIVE StrLess(_, _)
StrLess(s, t) ==
    IF t = <<>> THEN FALSE
    ELSE IF s = <<>> THEN TRUE
    ELSE IF Ord(Head(s)) # Ord(Head(t)) THEN Ord(Head(s)) < Ord(Head(t))
    ELSE StrLess(Tail(s), Tail(t))

\* s.split('/')[-1]
SplitLast(s) ==
    IF \E i \in 1..Len(s) : s[i] = "/"
    THEN LET i == CHOOSE j \in 1..Len(s) :
                      s[j] = "/" /\ \A k \in (j + 1)..Len(s) : s[k] # "/"
         IN  SubSeq(s, i + 1, Len(s))
    ELSE s

\* s.rstrip('/')
RECURSIVE RStripSlash(_)
RStripSlash(s) ==
    IF s # <<>> /\ s[Len(s)] = "/"
    THEN RStripSlash(SubSeq(s, 1, Len(s) - 1))
    ELSE s

IsSpace(c) == c \in {" ", "\n", "\t"}

\* s.strip()
RECURSIVE LStrip(_)
LStrip(s) == IF s # <<>> /\ IsSpace(Head(s)) THEN LStrip(Tail(s)) ELSE s
RECURSIVE RStrip(_)
RStrip(s) ==
    IF s # <<>> /\ IsSpace(s[Len(s)])
    THEN RStrip(SubSeq(s, 1, Len(s) - 1))
    ELSE s
Strip(s) == LStrip(RStrip(s))

\* needle in hay
Contains(hay, needle) ==
    \E i \in 1..(Len(hay) - Len(needle) + 1) :
        SubSeq(hay, i, i + Len(needle) - 1) = needle

\* "configured as immutable"
IMMUTABLE_MARKER ==
    <<"c","o","n","f","i","g","u","r","e","d"," ","a","s"," ",
      "i","m","m","u","t","a","b","l","e">>

----------------------------------------------------------------------------
(* Inputs the environment supplies *)

Str_r    == <<"r">>
Str_rs   == <<"r", "/">>
Str_rss  == <<"r", "/", "/">>
Str_hr   == <<"h", "/", "r">>

\* the registry argument of the command line
RegistryArgs == {Str_r, Str_rs, Str_rss, Str_hr}

\* image references IMAGE_REGEX can match
ImageRefs ==
    { <<"a", ":", "1">>, <<"a", "/", "b">>, <<"b">>, <<"h", "/", "a", "/", "b">> }

RECURSIVE SeqsUpTo(_, _)
SeqsUpTo(S, n) ==
    IF n = 0 THEN { <<>> }
    ELSE SeqsUpTo(S, n - 1) \cup
         { Append(s, x) : s \in { t \in SeqsUpTo(S, n - 1) : Len(t) = n - 1 },
                          x \in S }

\* what IMAGE_REGEX.findall returns for a rendered manifest
MatchLists == SeqsUpTo(ImageRefs, MaxMatches)

Str_denied == <<"d", "e", "n", "i", "e", "d">>
\* "tag configured as immutable\n"
Str_conflict == <<"t", "a", "g", " ">> \o IMMUTABLE_MARKER \o <<"\n">>
\* "configured as immu\n" and "table": the marker split over two streams
Str_head == SubSeq(IMMUTABLE_MARKER, 1, 18) \o <<"\n">>
Str_tail == SubSeq(IMMUTABLE_MARKER, 19, 23)

\* raw text an external command may write to stdout or to stderr
Outputs == { <<>>, Str_denied, Str_conflict, Str_head, Str_tail }

FailStatuses == {1, 2}

\* outcomes of subprocess.run: the binary is missing, or it ran and exited
NotFound == [found |-> FALSE, returncode |-> 0, stdout |-> <<>>, stderr |-> <<>>]
QuietOutcomes ==
    { NotFound } \cup
    { [found |-> TRUE, returncode |-> rc, stdout |-> <<>>, stderr |-> <<>>] :
        rc \in {0} \cup FailStatuses }
TextOutcomes ==
    QuietOutcomes \cup
    { [found |-> TRUE, returncode |-> rc, stdout |-> so, stderr |-> se] :
        rc \in FailStatuses, so \in Outputs, se \in Outputs }

----------------------------------------------------------------------------
(* Command Runner *)

NoResult == [stdout |-> <<>>, stderr |-> <<>>, returncode |-> 0]

\* CommandResult.success
success(result) == result.returncode = 0

\* chart_converter.run_command: [returned, result]; not returned = typer.Exit(1)
run_commandExitsOnFailure(o) ==
    IF o.found /\ o.returncode = 0
    THEN [returned |-> TRUE,
          result |-> [stdout |-> Strip(o.stdout), stderr |-> Strip(o.stderr),
                      returncode |-> o.returncode]]
    ELSE [returned |-> FALSE, result |-> NoResult]
run_command(o) ==
    IF ~o.found
    THEN [returned |-> FALSE, result |-> NoResult]
    ELSE [returned |-> TRUE,
          result |-> [stdout |-> Strip(o.stdout), stderr |-> Strip(o.stderr),
                      returncode |-> o.returncode]]

\* main.run_command: returns stdout (or "") on exit status 0, else sys.exit(1)
main_run_command(o, capture_output) ==
    IF o.found /\ o.returncode = 0
    THEN [returned |-> TRUE,
          result |-> [stdout |-> IF capture_output THEN o.stdout ELSE <<>>,
                      stderr |-> <<>>, returncode |-> 0]]
    ELSE [returned |-> FALSE, result |-> NoResult]

\* the run_command of the entry point that is running
Invoke(v, o, capture_output) ==
    IF v = "main" THEN main_run_command(o, capture_output) ELSE run_command(o)

\* "configured as immutable" in (push_result.stdout + push_result.stderr)
AlreadyMirroredStderrOnly(result) == Contains(result.stderr, IMMUTABLE_MARKER)
AlreadyMirroredAnyFailure(result) == TRUE
AlreadyMirrored(result) ==
    Contains(result.stdout \o result.stderr, IMMUTABLE_MARKER)

\* what a capturing caller reads of an outcome: each stream, stripped
CapturedText(o) == Strip(o.stdout) \o Strip(o.stderr)

\* one record of the command log: the command and what the process did
Entry(tool, verb, a1, a2, o) ==
    [tool |-> tool, verb |-> verb, a1 |-> a1, a2 |-> a2,
     found |-> o.found, returncode |-> o.returncode,
     marker |-> Contains(CapturedText(o), IMMUTABLE_MARKER)]

\* one record of the log for a filesystem operation of the run itself
OsEntry(verb, done) ==
    [tool |-> "os", verb |-> verb, a1 |-> <<>>, a2 |-> <<>>,
     found |-> TRUE, returncode |-> IF done THEN 0 ELSE 1, marker |-> FALSE]

\* what the latest run_command call was given and did
Last(o, r) == [outcome |-> o, returned |-> r.returned, result |-> r.result]


----------------------------------------------------------------------------
(* Configuration trees: what yaml.safe_load returns and what yaml.dump takes *)

\* a dict key, or a list index as enumerate() yields it
Key(name) == [t |-> "key", k |-> name, i |-> 0]
Index(n)  == [t |-> "idx", k |-> "", i |-> n]

\* items keeps a dict's insertion order, or a list's index order
StrNode(s)      == [kind |-> "str",  s |-> s,    items |-> <<>>]
NoneNode        == [kind |-> "none", s |-> <<>>, items |-> <<>>]
DictNode(items) == [kind |-> "dict", s |-> <<>>, items |-> items]
ListNode(items) == [kind |-> "list", s |-> <<>>, items |-> items]
Item(key, value) == [key |-> key, value |-> value]
EmptyDict == DictNode(<<>>)

\* key in d
HasKey(d, key) == \E n \in 1..Len(d.items) : d.items[n].key = key
\* d[key]
GetItem(d, key) ==
    d.items[CHOOSE n \in 1..Len(d.items) : d.items[n].key = key].value
\* d[key] = value
SetItem(d, key, value) ==
    IF HasKey(d, key)
    THEN DictNode([n \in 1..Len(d.items) |->
                     IF d.items[n].key = key THEN Item(key, value)
                     ELSE d.items[n]])
    ELSE DictNode(Append(d.items, Item(key, value)))

\* an exception no handler catches: nothing is written
Crash == [ok |-> FALSE, tree |-> EmptyDict]
Ok(tree) == [ok |-> TRUE, tree |-> tree]

\* lines 173-177 of chart_converter.py (106-113 of main.py): walk to the
\* node at path with setdefault, then set registry and repository there.
\* A str on the way has no setdefault and takes no item assignment.
RECURSIVE UpdateImageBlock(_, _, _, _)
UpdateImageBlock(node, path, reg, repo) ==
    IF node.kind # "dict" THEN Crash
    ELSE IF path = <<>>
    THEN Ok(SetItem(SetItem(node, Key("registry"), StrNode(reg)),
                    Key("repository"), StrNode(repo)))
    ELSE LET child == IF HasKey(node, Head(path))
                      THEN GetItem(node, Head(path))
                      ELSE EmptyDict
             r == UpdateImageBlock(child, Tail(path), reg, repo)
         IN  IF r.ok THEN Ok(SetItem(node, Head(path), r.tree)) ELSE Crash

\* 'repository' in data and 'tag' in data
IsImageBlock(data) ==
    HasKey(data, Key("repository")) /\ HasKey(data, Key("tag"))

\* find_and_update_images(data, path), the output tree threaded through acc
RECURSIVE find_and_update_images(_, _, _, _)
RECURSIVE WalkItems(_, _, _, _, _)
find_and_update_images(data, path, reg, acc) ==
    IF ~acc.ok THEN acc
    ELSE IF data.kind = "dict"
    THEN LET here ==
                 IF IsImageBlock(data)
                 THEN LET repository == GetItem(data, Key("repository"))
                      IN  IF repository.kind # "str" THEN Crash
                          ELSE UpdateImageBlock(acc.tree, path, reg,
                                                SplitLast(repository.s))
                 ELSE acc
         IN  WalkItems(data.items, 1, path, reg, here)
    ELSE IF data.kind = "list"
    THEN WalkItems(data.items, 1, path, reg, acc)
    ELSE acc
\* the for loops over data.items() and enumerate(data)
WalkItems(items, n, path, reg, acc) ==
    IF n > Len(items) THEN acc
    ELSE WalkItems(items, n + 1, path, reg,
                   find_and_update_images(items[n].value,
                                          Append(path, items[n].key), reg, acc))

\* lines 186-188: global.imageRegistry is set after the walk
SetGlobalRegistryIfAbsent(tree, reg) ==
    IF HasKey(tree, Key("global")) THEN Ok(tree)
    ELSE Ok(SetItem(tree, Key("global"),
                    DictNode(<<Item(Key("imageRegistry"), StrNode(reg))>>)))
SetGlobalRegistry(tree, reg) ==
    LET withGlobal == IF HasKey(tree, Key("global")) THEN tree
                      ELSE SetItem(tree, Key("global"), EmptyDict)
        global == GetItem(withGlobal, Key("global"))
    IN  IF global.kind # "dict" THEN Crash
        ELSE Ok(SetItem(withGlobal, Key("global"),
                        SetItem(global, Key("imageRegistry"), StrNode(reg))))

\* the tree generate_offline_values builds from the loaded document
OfflineValues(original, reg) ==
    LET walked == find_and_update_images(original, <<>>, reg, Ok(EmptyDict))
    IN  IF walked.ok THEN SetGlobalRegistry(walked.tree, reg) ELSE Crash

\* the node at path, or Missing
Missing == [kind |-> "missing", s |-> <<>>, items |-> <<>>]
RECURSIVE NodeAt(_, _)
NodeAt(node, path) ==
    IF path = <<>> THEN node
    ELSE IF node.kind \in {"dict", "list"} /\ HasKey(node, Head(path))
    THEN NodeAt(GetItem(node, Head(path)), Tail(path))
    ELSE Missing

\* the paths of a tree, root included
RECURSIVE PathsOf(_)
PathsOf(node) ==
    { <<>> } \cup
    UNION { { <<node.items[n].key>> \o p : p \in PathsOf(node.items[n].value) } :
            n \in 1..Len(node.items) }

(* Bounded documents *)

Str_hab == <<"h", "/", "a", "/", "b">>
Str_b   == <<"b">>
Str_1   == <<"1">>

Scalars == { StrNode(Str_hab), StrNode(Str_b), NoneNode }

\* documents nested at most d deep; a list is index-keyed like enumerate()
RECURSIVE Trees(_)
Trees(d) ==
    IF d = 0 THEN Scalars
    ELSE LET sub == Trees(d - 1)
             Block(r) == <<Item(Key("repository"), r),
                           Item(Key("tag"), StrNode(Str_1))>>
         IN  Scalars
             \cup { EmptyDict }
             \cup { DictNode(Block(r)) : r \in Scalars }
             \cup { DictNode(Append(Block(StrNode(Str_hab)), Item(Key(x), c))) :
                      x \in {"registry", "image"}, c \in sub }
             \cup { DictNode(<<Item(Key(x), c)>>) :
                      x \in {"global", "imageRegistry", "image"}, c \in sub }
             \cup { DictNode(<<Item(Key("repository"), r)>>) : r \in Scalars }
             \cup { ListNode(<<Item(Index(0), c)>>) : c \in sub }
             \cup { ListNode(<<Item(Index(0), StrNode(Str_b)), Item(Index(1), c)>>) :
                      c \in sub }


----------------------------------------------------------------------------
(* Orchestrator *)

\* sorted(list(images_to_process))
RECURSIVE sortedDescending(_)
sortedDescending(S) ==
    IF S = {} THEN <<>>
    ELSE LET m == CHOOSE x \in S : \A y \in S \ {x} : StrLess(y, x)
         IN  <<m>> \o sortedDescending(S \ {m})
RECURSIVE sorted(_)
sorted(S) ==
    IF S = {} THEN <<>>
    ELSE LET m == CHOOSE x \in S : \A y \in S \ {x} : StrLess(x, y)
         IN  <<m>> \o sorted(S \ {m})

\* set(IMAGE_REGEX.findall(template_output))
found_images(matches) == { matches[n] : n \in 1..Len(matches) }

\* `if not images_to_process`
NoImagesIsNone(images) == FALSE
NoImages(images) == images = {}

\* the for loop over the sorted images has no image left after queue[i]
LoopDoneAfterFirst(i, q) == i >= 1
LoopDone(i, q) == i >= Len(q)

\* new_image_tag = f"{private_registry}/{image_name_part}"
new_image_tagKeepsPath(original_image, reg) ==
    reg \o <<"/">> \o original_image
new_image_tag(original_image, reg) ==
    reg \o <<"/">> \o SplitLast(original_image)

\* private_registry = registry.rstrip('/')
StripRegistry(g) == RStripSlash(g)

OUTPUT_DIR  == "output_dir"
VALUES_FILE == "offline-values.yaml"
CHART_TGZ   == "chart.tgz"

Init ==
    /\ variant \in {"main", "chart_converter"}
    /\ registry \in RegistryArgs
    /\ private_registry = StripRegistry(registry)
    /\ pc = "repo_update"
    /\ images_to_process = {}
    /\ queue = <<>>
    /\ idx = 0
    /\ log = <<>>
    /\ last = Last(NotFound, [returned |-> FALSE, result |-> NoResult])
    /\ fs = {}
    /\ original_values = NoneNode
    /\ offline_values = EmptyDict
    /\ summary = FALSE
    /\ warned = FALSE
    /\ exit_code = 0

\* the process ends with this status
Exit(code) == pc' = "exited" /\ exit_code' = code

\* run_command is called: the log and last record it
Called(tool, verb, a1, a2, o, r) ==
    /\ log' = Append(log, Entry(tool, verb, a1, a2, o))
    /\ last' = Last(o, r)

\* run, lines 223-228; main, line 153
RepoUpdateFatal(o, r) ==
    /\ IF r.returned /\ success(r.result)
       THEN pc' = "template" /\ exit_code' = exit_code
       ELSE Exit(1)
    /\ warned' = warned
RepoUpdateStep(o, r) ==
    /\ IF ~r.returned THEN Exit(1)
       ELSE pc' = "template" /\ exit_code' = exit_code
    /\ warned' = (r.returned /\ ~success(r.result))
RepoUpdate ==
    /\ pc = "repo_update"
    /\ \E o \in QuietOutcomes :
         LET r == Invoke(variant, o, FALSE)
         IN  /\ Called("helm", "repo update", <<>>, <<>>, o, r)
             /\ RepoUpdateStep(o, r)
    /\ UNCHANGED <<variant, registry, private_registry, images_to_process,
                   queue, idx, fs, original_values, offline_values, summary>>

\* get_images_from_chart and the empty check of run (230-233) / main (156-159)
HelmTemplate ==
    /\ pc = "template"
    /\ \E o \in QuietOutcomes, matches \in MatchLists :
         LET r == Invoke(variant, o, TRUE)
         IN  /\ Called("helm", "template", <<>>, <<>>, o, r)
             /\ IF ~r.returned \/ ~success(r.result)
                THEN /\ Exit(1)
                     /\ UNCHANGED <<images_to_process, queue, idx>>
                ELSE /\ images_to_process' = found_images(matches)
                     /\ IF NoImages(found_images(matches))
                        THEN Exit(0) /\ UNCHANGED <<queue, idx>>
                        ELSE /\ queue' = sorted(found_images(matches))
                             /\ idx' = 1
                             /\ pc' = IF LoopDone(0, queue') THEN "makedirs"
                                      ELSE "pull"
                             /\ exit_code' = exit_code
    /\ UNCHANGED <<variant, registry, private_registry, fs, original_values,
                   offline_values, summary, warned>>

\* process_image, step 1
DockerPull ==
    /\ pc = "pull"
    /\ \E o \in QuietOutcomes :
         LET r == Invoke(variant, o, FALSE)
         IN  /\ Called("docker", "pull", queue[idx], <<>>, o, r)
             /\ IF ~r.returned \/ ~success(r.result)
                THEN Exit(1)
                ELSE pc' = "tag" /\ exit_code' = exit_code
    /\ UNCHANGED <<variant, registry, private_registry, images_to_process,
                   queue, idx, fs, original_values, offline_values, summary,
                   warned>>

\* process_image, step 2
DockerTag ==
    /\ pc = "tag"
    /\ \E o \in QuietOutcomes :
         LET r == Invoke(variant, o, FALSE)
         IN  /\ Called("docker", "tag", queue[idx],
                       new_image_tag(queue[idx], private_registry), o, r)
             /\ IF ~r.returned \/ ~success(r.result)
                THEN Exit(1)
                ELSE pc' = "push" /\ exit_code' = exit_code
    /\ UNCHANGED <<variant, registry, private_registry, images_to_process,
                   queue, idx, fs, original_values, offline_values, summary,
                   warned>>

\* process_image, step 3, and the loop of run (236-237) / main (163-164)
DockerPush ==
    /\ pc = "push"
    /\ \E o \in TextOutcomes :
         LET r == Invoke(variant, o, FALSE)
         IN  /\ Called("docker", "push",
                       new_image_tag(queue[idx], private_registry), <<>>, o, r)
             /\ IF ~r.returned
                   \/ (~success(r.result) /\ ~AlreadyMirrored(r.result))
                THEN Exit(1) /\ idx' = idx
                ELSE /\ exit_code' = exit_code
                     /\ IF LoopDone(idx, queue)
                        THEN idx' = idx /\ pc' = "makedirs"
                        ELSE idx' = idx + 1 /\ pc' = "pull"
    /\ UNCHANGED <<variant, registry, private_registry, images_to_process,
                   queue, fs, original_values, offline_values, summary, warned>>

\* os.makedirs(output_dir, exist_ok=True); an OSError is not caught
MakeDirs ==
    /\ pc = "makedirs"
    /\ \E created \in BOOLEAN :
         /\ log' = Append(log, OsEntry("makedirs", created))
         /\ IF created
            THEN /\ fs' = fs \cup {OUTPUT_DIR}
                 /\ pc' = "show_values"
                 /\ exit_code' = exit_code
            ELSE Exit(1) /\ fs' = fs
    /\ UNCHANGED <<variant, registry, private_registry, images_to_process,
                   queue, idx, last, original_values, offline_values,
                   summary, warned>>

\* the documents `helm show values` may print inside the pipeline
PipelineDocs == Trees(1)

\* generate_offline_values from yaml.safe_load on: walk, global, dump
WriteOfflineValues(doc, calls) ==
    LET built == OfflineValues(doc, private_registry)
    IN  /\ original_values' = doc
        /\ IF built.ok
           THEN /\ offline_values' = built.tree
                /\ fs' = fs \cup {VALUES_FILE}
                /\ log' = Append(calls, OsEntry("write", TRUE))
                /\ pc' = "fetch"
                /\ exit_code' = exit_code
           ELSE /\ Exit(1)
                /\ log' = calls
                /\ UNCHANGED <<offline_values, fs>>

\* generate_offline_values
ShowValues ==
    /\ pc = "show_values"
    /\ \E o \in QuietOutcomes, parsed \in BOOLEAN, doc \in PipelineDocs :
         LET r == Invoke(variant, o, TRUE)
             calls == Append(log, Entry("helm", "show values", <<>>, <<>>, o))
         IN  /\ last' = Last(o, r)
             /\ IF ~r.returned \/ ~success(r.result) \/ ~parsed
                THEN /\ Exit(1)
                     /\ log' = calls
                     /\ UNCHANGED <<original_values, offline_values, fs>>
                ELSE WriteOfflineValues(doc, calls)
    /\ UNCHANGED <<variant, registry, private_registry, images_to_process,
                   queue, idx, summary, warned>>

\* run, lines 246-286; main, lines 176-206
HelmFetch ==
    /\ pc = "fetch"
    /\ \E o \in QuietOutcomes, chart_tgz_list \in BOOLEAN :
         LET r == Invoke(variant, o, FALSE)
         IN  /\ Called("helm", "fetch", <<>>, <<>>, o, r)
             /\ IF ~r.returned \/ ~success(r.result)
                THEN Exit(1) /\ UNCHANGED <<fs, summary>>
                ELSE IF ~chart_tgz_list
                THEN Exit(1) /\ UNCHANGED <<fs, summary>>
                ELSE /\ fs' = fs \cup {CHART_TGZ}
                     /\ summary' = TRUE
                     /\ Exit(0)
    /\ UNCHANGED <<variant, registry, private_registry, images_to_process,
                   queue, idx, original_values, offline_values, warned>>

Next ==
    \/ RepoUpdate
    \/ HelmTemplate
    \/ DockerPull
    \/ DockerTag
    \/ DockerPush
    \/ MakeDirs
    \/ ShowValues
    \/ HelmFetch

Spec == Init /\ [][Next]_vars

----------------------------------------------------------------------------
(* Values Rewriter on its own: every bounded document, every registry *)

InitValues ==
    /\ variant \in {"main", "chart_converter"}
    /\ registry \in RegistryArgs
    /\ private_registry = StripRegistry(registry)
    /\ pc = "loaded"
    /\ original_values \in Trees(MaxDepth)
    /\ images_to_process = {}
    /\ queue = <<>>
    /\ idx = 0
    /\ log = <<>>
    /\ last = Last(NotFound, [returned |-> FALSE, result |-> NoResult])
    /\ fs = {OUTPUT_DIR}
    /\ offline_values = EmptyDict
    /\ summary = FALSE
    /\ warned = FALSE
    /\ exit_code = 0

Rewrite ==
    /\ pc = "loaded"
    /\ WriteOfflineValues(original_values, log)
    /\ UNCHANGED <<variant, registry, private_registry, images_to_process,
                   queue, idx, last, summary, warned>>

NextValues == Rewrite

SpecValues == InitValues /\ [][NextValues]_vars


----------------------------------------------------------------------------
(* Properties *)

\* the process of log entry e ran and exited non-zero
Failed(e) == e.found /\ e.returncode # 0
\* the process of log entry e ran and exited 0
Succeeded(e) == e.found /\ e.returncode = 0
LastEntry == log[Len(log)]
RepoUpdateFailed == Len(log) >= 1 /\ Failed(log[1])

\* after a failed `helm repo update` the run has warned and goes on to
\* `helm template`, the next command of the log
ProceedsToDiscovery ==
    /\ warned
    /\ Len(log) = 1 => pc = "template"
    /\ Len(log) >= 2 => log[2].verb = "template"

ContinuesAfterPush ==
    \/ pc = "pull" /\ idx >= 2
    \/ pc = "makedirs" /\ idx = Len(queue)
Aborted == pc = "exited" /\ exit_code # 0

\* a failed pull or tag has ended the run
PullTagFailureFatal ==
    (log # <<>> /\ LastEntry.verb \in {"pull", "tag"} /\ Failed(LastEntry))
        => Aborted

ReturnedStatus ==
    /\ last.returned
    /\ last.result.returncode = last.outcome.returncode
    /\ success(last.result) <=> (last.outcome.returncode = 0)
\* run_command ended the process with a non-zero status
RunCommandExited == ~last.returned /\ pc = "exited" /\ exit_code # 0

DockerLog == SelectSeq(log, LAMBDA e : e.tool = "docker")

\* the suffix of r after its last "/", all of r when it has none
RECURSIVE ShortName(_)
ShortName(r) ==
    IF \A n \in 1..Len(r) : r[n] # "/" THEN r
    ELSE ShortName(Tail(r))

\* C4: the images are mirrored one at a time in ascending lexicographic
\* order, each distinct image once, as pull, tag, push; a tag follows a
\* successful pull and a push a successful tag of the same image.
C4_MirrorOrder ==
    /\ \A n \in 1..Len(queue) : queue[n] \in images_to_process
    /\ \A n \in 1..(Len(queue) - 1) : StrLess(queue[n], queue[n + 1])
    /\ queue # <<>> => Len(queue) = Cardinality(images_to_process)
    /\ Len(DockerLog) <= 3 * Len(queue)
    /\ \A j \in 1..Len(DockerLog) :
         LET k == ((j - 1) \div 3) + 1
             step == ((j - 1) % 3) + 1
             e == DockerLog[j]
         IN  /\ e.verb = <<"pull", "tag", "push">>[step]
             /\ step \in {1, 2} => e.a1 = queue[k]
             /\ step = 3 => e.a1 = DockerLog[j - 1].a2
             /\ step \in {2, 3} => Succeeded(DockerLog[j - 1])
             /\ (step = 1 /\ j > 1) =>
                    (DockerLog[j - 1].found /\
                       (DockerLog[j - 1].returncode = 0 \/ DockerLog[j - 1].marker))
    /\ pc \in {"makedirs", "show_values", "fetch"} =>
           Len(DockerLog) = 3 * Cardinality(images_to_process)

C4_Witness ==
    /\ pc = "makedirs"
    /\ Len(queue) >= 2
    /\ Len(DockerLog) = 3 * Len(queue)

\* `helm template` succeeded and no image was found
EmptyDiscovery ==
    /\ Len(log) >= 2
    /\ log[2].verb = "template"
    /\ Succeeded(log[2])
    /\ images_to_process = {}

\* C5: when discovery succeeds with no image the run ends with status 0,
\* `helm template` is its last command and it has created nothing.
C5_NoImagesEarlyExit ==
    EmptyDiscovery =>
        /\ pc = "exited"
        /\ exit_code = 0
        /\ Len(log) = 2
        /\ fs = {}
        /\ ~summary

C5_Witness == EmptyDiscovery /\ pc = "exited"


\* offline-values.yaml has been written
Written == VALUES_FILE \in fs

\* the node at path p of the source document is a mirrorable block
IsBlockAt(p) ==
    LET node == NodeAt(original_values, p)
    IN  node.kind = "dict" /\ IsImageBlock(node)

\* the written tree holds, at path p, a mapping with the private registry
\* and the short name of the source block's repository
RewrittenAt(p) ==
    LET source == NodeAt(original_values, p)
        node == NodeAt(offline_values, p)
    IN  /\ node.kind = "dict"
        /\ HasKey(node, Key("registry"))
        /\ GetItem(node, Key("registry")) = StrNode(private_registry)
        /\ HasKey(node, Key("repository"))
        /\ GetItem(node, Key("repository")) =
               StrNode(ShortName(GetItem(source, Key("repository")).s))

\* C6 as stated: every mirrorable block of the source document, at any
\* path, is in the written tree at the same path as a mapping with the
\* private registry and the repository's short name.
C6_EveryBlockRewritten ==
    Written => \A p \in PathsOf(original_values) : IsBlockAt(p) => RewrittenAt(p)

\* C7: the written tree has a top-level global mapping whose imageRegistry
\* is the private registry, whatever the source document.
C7_GlobalImageRegistry ==
    Written =>
        /\ NodeAt(offline_values, <<Key("global")>>).kind = "dict"
        /\ NodeAt(offline_values, <<Key("global"), Key("imageRegistry")>>)
               = StrNode(private_registry)

\* the source document has a mirrorable block under global
C7_Witness ==
    /\ Written
    /\ \E p \in PathsOf(original_values) :
         /\ Len(p) >= 2
         /\ p[1] = Key("global")
         /\ IsBlockAt(p)
         /\ RewrittenAt(p)
    /\ NodeAt(offline_values, <<Key("global"), Key("imageRegistry")>>)
           = StrNode(private_registry)

\* a condition the run cannot survive
FatalEntry(e) ==
    \/ ~e.found
    \/ Failed(e) /\ e.verb \in {"template", "show values", "fetch", "pull", "tag"}
    \/ Failed(e) /\ e.verb = "push" /\ ~e.marker

\* `helm fetch` succeeded and no archive matched the glob
MissingArchive ==
    /\ log # <<>>
    /\ LastEntry.verb = "fetch"
    /\ Succeeded(LastEntry)
    /\ CHART_TGZ \notin fs

\* what the run has created is what the log says it created
Created(verb) == \E j \in 1..Len(log) : log[j].verb = verb /\ Succeeded(log[j])
FsFollowsLog ==
    /\ OUTPUT_DIR \in fs <=> Created("makedirs")
    /\ VALUES_FILE \in fs <=> Created("write")
    /\ CHART_TGZ \in fs => Created("fetch")

FullSuccess ==
    /\ summary
    /\ \A j \in 1..Len(log) : ~FatalEntry(log[j])
    /\ fs = {OUTPUT_DIR, VALUES_FILE, CHART_TGZ}

\* C8: a fatal condition ends the run there with a non-zero status, no
\* command or creation follows it; status 0 is full success or the
\* no-images early exit.
C8_FatalAborts ==
    /\ \A j \in 1..Len(log) : FatalEntry(log[j]) => (j = Len(log) /\ Aborted)
    /\ MissingArchive => (Aborted /\ ~summary)
    /\ FsFollowsLog
    /\ (pc = "exited" /\ exit_code = 0) =>
           (FullSuccess \/ (EmptyDiscovery /\ Len(log) = 2))

C8_Witness ==
    /\ Len(log) >= 6
    /\ FatalEntry(LastEntry)
    /\ LastEntry.verb = "push"
    /\ Aborted

\* g without one trailing "/"
WithoutTrailingSlash(g) ==
    IF g # <<>> /\ g[Len(g)] = "/" THEN SubSeq(g, 1, Len(g) - 1) ELSE g
\* g without any of its trailing "/"
WithoutTrailingSlashes(g) ==
    LET n == CHOOSE m \in 0..Len(g) :
                 /\ m = 0 \/ g[m] # "/"
                 /\ \A k \in (m + 1)..Len(g) : g[k] = "/"
    IN  SubSeq(g, 1, n)

\* every tag names target from the pulled reference, and every push pushes
\* the tag's target
TagsAndPushes(target(_)) ==
    \A j \in 1..Len(log) :
        /\ log[j].verb = "tag" =>
               /\ log[j - 1].verb = "pull"
               /\ log[j - 1].a1 = log[j].a1
               /\ log[j].a1 \in images_to_process
               /\ log[j].a2 = target(log[j].a1)
        /\ log[j].verb = "push" =>
               /\ log[j - 1].verb = "tag"
               /\ log[j].a1 = log[j - 1].a2

\* C9 as stated: the tagged and pushed reference is the registry argument
\* without its trailing slash, "/", and the short name of the reference.
C9_TargetStripsOneSlash ==
    TagsAndPushes(LAMBDA r : WithoutTrailingSlash(registry) \o <<"/">> \o ShortName(r))

\* C9 amended: the tagged and pushed reference is the registry argument
\* without any of its trailing slashes, "/", and the short name of the
\* reference; the pulled reference is the discovered one, unchanged.
C9_TargetStripsAllSlashes ==
    TagsAndPushes(LAMBDA r : WithoutTrailingSlashes(registry) \o <<"/">> \o ShortName(r))

C9_Witness ==
    /\ registry = Str_rss
    /\ log # <<>>
    /\ LastEntry.verb = "push"
    /\ LastEntry.a1 = <<"r", "/", "b">>
    /\ log[Len(log) - 2].a1 = Str_hab

\* before log entry n, image was pulled, tagged and pushed, the push
\* succeeding or failing with the marker
MirroredBefore(image, n) ==
    \E a \in 1..(n - 3) :
        /\ log[a].verb = "pull" /\ log[a].a1 = image /\ Succeeded(log[a])
        /\ log[a + 1].verb = "tag" /\ log[a + 1].a1 = image
        /\ Succeeded(log[a + 1])
        /\ log[a + 2].verb = "push" /\ log[a + 2].a1 = log[a + 1].a2
        /\ (Succeeded(log[a + 2]) \/ (Failed(log[a + 2]) /\ log[a + 2].marker))

\* C10: at the summary every discovered image is mirrored, the output
\* directory and offline-values.yaml exist and `helm fetch` succeeded
\* with a matching archive; the directory is created only after the last
\* image is mirrored.
C10_SummaryMeansComplete ==
    /\ summary =>
           /\ \A image \in images_to_process : MirroredBefore(image, Len(log))
           /\ images_to_process # {}
           /\ OUTPUT_DIR \in fs
           /\ VALUES_FILE \in fs
           /\ CHART_TGZ \in fs
           /\ LastEntry.verb = "fetch" /\ Succeeded(LastEntry)
    /\ \A n \in 1..Len(log) :
           log[n].verb = "makedirs" =>
               \A image \in images_to_process : MirroredBefore(image, n)

C10_Witness ==
    /\ summary
    /\ Cardinality(images_to_process) >= 2
    /\ \E n \in 1..Len(log) : log[n].verb = "push" /\ Failed(log[n])


====
